---- MODULE Spec2Model ----
(***************************************************************************)
(* Model of src/main.py (MdkExampleApp and its interactive handlers).      *)
(*                                                                         *)
(* The group-security engine (self.mdk) and the relay client (self.client) *)
(* are external collaborators: every call to them is logged and its result *)
(* is a nondeterministic choice among the outcomes the call can have       *)
(* (a value, or a raised exception).                                       *)
(***************************************************************************)
EXTENDS Integers, Sequences, FiniteSets, TLC

(* ------------------------------ bounds --------------------------------- *)
MaxMembers == 2      \* pieces of the comma-separated npub input
MaxRumors == 2       \* welcome rumors returned by one engine call
MaxTime == 1        \* the clock runs over 0..MaxTime
MaxGroups == 1       \* groups returned by get_groups
MaxWelcomes == 1     \* welcomes returned by get_pending_welcomes
MaxRetries == 1      \* out-of-range answers given to one number prompt

(* ---------------------------- program constants ------------------------ *)
ThirtyDays == 30 * 24 * 60 * 60
FetchLimit == 1

(* ------------------------------ identities ----------------------------- *)
Me == "npub_me"
ValidNpubs == {"npub_A", "npub_B"}
Npubs == ValidNpubs \cup {"npub_bad"}
Relays == <<"wss://relay.damus.io", "wss://relay.arx-ccn.com">>

\* PublicKey.parse(npub): succeeds on a well-formed identifier, raises otherwise
PublicKeyParseOk(npub) == npub \in ValidNpubs

(* ------------------------------ key packages --------------------------- *)
\* event ids; NoneId is Python's None, EmptyId the empty string
NoneId == [author |-> "None", v |-> 0]
EmptyId == [author |-> "", v |-> 0]
UnknownId == [author |-> "npub_other", v |-> 1]
KpId(npub, v) == [author |-> npub, v |-> v]

\* the relay list an identity passed to create_key_package_for_event, which
\* the tags of its key package event carry
RelaysOf(npub) ==
  IF npub = "npub_A" THEN <<"wss://relay.a.example">> ELSE Relays

None == [type |-> "None", id |-> NoneId, pubkey |-> "None", relays |-> <<>>]
KeyPackage(npub, v) ==
  [type |-> "Event", id |-> KpId(npub, v), pubkey |-> npub, relays |-> RelaysOf(npub)]
\* the key package each well-formed identity may have published
KeyPackages == {KeyPackage(n, 1) : n \in ValidNpubs}

\* as_json that yields the text of another value than the event
as_jsonBlank(kp) == [type |-> "str", event |-> None]

\* kp.as_json(): the JSON text of an event
as_json(kp) == [type |-> "str", event |-> kp]

\* `not x' on a value that is None or an object
Not(x) == x = None

\* json.dumps(x): defined on JSON types only; an Event object is not one
JsonDumpsOk(x) == x.type \in {"None", "str"}
JsonDumps(x) == [type |-> "str", event |-> x]

(* ------------------------------ welcome rumors ------------------------- *)
Tag(key, value) == <<key, value>>
ShortTag(key) == <<key>>
TagLists ==
  {<<>>, <<Tag("e", EmptyId)>>, <<Tag("e", UnknownId)>>}
  \cup {<<Tag("e", KpId(n, 1))>> : n \in ValidNpubs}
  \cup {<<Tag("p", KpId("npub_A", 1)), ShortTag("e"), Tag("e", KpId("npub_B", 1))>>}

SeqsUpTo(S, n) == UNION {[1..k -> S] : k \in 0..n}

\* a welcome rumor JSON string: text that is not JSON, or a JSON object with
\* tags that is (valid) or is not a well-formed unsigned event
NotJson == [kind |-> "notjson", tags |-> <<>>, valid |-> FALSE, created_at |-> 0]
Rumor(tags, valid, t) == [kind |-> "object", tags |-> tags, valid |-> valid, created_at |-> t]
\* the rumor strings of a batch created at time t: well-formed for every tag
\* list, and one that is no unsigned event
RumorsAt(t) ==
  {NotJson}
  \cup {Rumor(tl, TRUE, t) : tl \in TagLists}
  \cup {Rumor(<<Tag("e", KpId("npub_A", 1))>>, FALSE, t)}
\* the results an engine call made at time t may return: a batch of rumors
\* created just now or at time 0
RumorLists(t) == SeqsUpTo(RumorsAt(0), MaxRumors) \cup SeqsUpTo(RumorsAt(t), MaxRumors)

\* next((tag[1] for tag in tags if len(tag) >= 2 and tag[0] == 'e'), None)
RECURSIVE FirstETag(_)
FirstETag(tags) ==
  IF tags = <<>> THEN NoneId
  ELSE IF Len(Head(tags)) >= 2 /\ Head(tags)[1] = "e" THEN Head(tags)[2]
  ELSE FirstETag(Tail(tags))

\* truthiness of an event id taken from a tag
Truthy(event_id) == event_id # NoneId /\ event_id # EmptyId

Min(a, b) == IF a < b THEN a ELSE b
Max(S) == CHOOSE x \in S : \A y \in S : y <= x

\* ZipDict that gives every ticket to the first identifier
ZipDictFirst(npubs, kps) ==
  LET n == Min(Len(npubs), Len(kps))
      keys == {kps[i].id : i \in {j \in 1..n : Truthy(kps[j].id)}}
  IN [k \in keys |-> npubs[1]]

\* {kp.id(): npub for npub, kp in zip(member_npubs, events) if kp.id()}
\* a later pair replaces an earlier one with the same key
ZipDict(npubs, kps) ==
  LET n == Min(Len(npubs), Len(kps))
      keys == {kps[i].id : i \in {j \in 1..n : Truthy(kps[j].id)}}
  IN [k \in keys |-> npubs[Max({i \in 1..n : kps[i].id = k})]]

\* Expiration with a factor of the duration forgotten
ExpirationShort(t) == t + 30 * 24 * 60

\* Timestamp.now().add_duration(Duration(seconds=30 * 24 * 60 * 60))
Expiration(t) == t + ThirtyDays

\* DispatchItem with a fallback recipient for an unmatched reference
DispatchItemFallback(rumor, id_to_npub) ==
  LET event_id == FirstETag(rumor.tags)
  IN IF rumor.kind = "notjson" THEN [act |-> "error", to |-> "None"]
     ELSE IF ~Truthy(event_id) \/ event_id \notin DOMAIN id_to_npub
       THEN [act |-> "wrap", to |-> "npub_A"]
     ELSE IF ~PublicKeyParseOk(id_to_npub[event_id])
       THEN [act |-> "error", to |-> "None"]
     ELSE IF ~rumor.valid THEN [act |-> "error", to |-> "None"]
     ELSE [act |-> "wrap", to |-> id_to_npub[event_id]]

\* body of the try block of publish_welcome_rumors for one rumor, up to the
\* gift_wrap_to call: "error" is an exception caught by the except clause,
\* "skip" the continue, "wrap" reaches gift_wrap_to for recipient `to'
DispatchItem(rumor, id_to_npub) ==
  LET event_id == FirstETag(rumor.tags)
  IN IF rumor.kind = "notjson" THEN [act |-> "error", to |-> "None"]
     ELSE IF ~Truthy(event_id) \/ event_id \notin DOMAIN id_to_npub
       THEN [act |-> "skip", to |-> "None"]
     ELSE IF ~PublicKeyParseOk(id_to_npub[event_id])
       THEN [act |-> "error", to |-> "None"]
     ELSE IF ~rumor.valid THEN [act |-> "error", to |-> "None"]
     ELSE [act |-> "wrap", to |-> id_to_npub[event_id]]

(* ------------------------------ state ---------------------------------- *)
VARIABLES
  pc,        \* position of the program: "menu", a point inside a handler,
             \* "done" when the handler has returned to the loop of main, or
             \* "exited" when main has left the loop
  op,        \* the handler that runs or ran last
  now,       \* the clock (seconds)
  name,      \* handle_create_group: the group name typed
  npubs_input, \* handle_create_group: the pieces of the npub line typed
  content,   \* handle_send_message: the message content typed
  answer,    \* handle_view_pending_invites: the answer to "Accept any invites?"
  selection, \* what the number prompt returned: "unset", "none" or "item"
  retries,   \* out-of-range answers the number prompt got so far
  member_npubs,
  member_key_package_events,
  member_key_package_events_dict,
  welcome_rumors_json,
  event_id_to_npub,
  expiration,
  pos,       \* 1-based index of the current item of the running for loop
  dispatch_time, \* clock value when publish_welcome_rumors was last called
  dispatch_args, \* member_npubs and member_key_package_events it was called with
  groups,    \* number of groups listed by select_group
  group,     \* the group select_group returned (0: none)
  welcomes,  \* number of welcomes listed by view_pending_invites
  fetched,   \* log: client.fetch_events calls of the current handler
  engine,    \* log: self.mdk calls of the current handler
  wraps,     \* log: client.gift_wrap_to calls of the current handler
  sent,      \* log: client.send_event calls of the current handler
  out        \* log: lines printed by the current handler

inputs == <<name, npubs_input, content, answer>>
locals == <<member_npubs, member_key_package_events, member_key_package_events_dict,
            welcome_rumors_json, event_id_to_npub, expiration, pos, dispatch_time,
            dispatch_args, groups, group, welcomes>>
logs == <<fetched, engine, wraps, sent, out>>
selector == <<selection, retries>>
vars == <<pc, op, now, inputs, locals, logs, selector>>

EmptyDict == [k \in {} |-> "None"]
NoArgs == [member_npubs |-> <<>>, member_key_package_events |-> <<>>]
NotTyped == "<not asked>"

Init ==
  /\ pc = "menu"
  /\ op = "none"
  /\ now = 0
  /\ name = NotTyped
  /\ npubs_input = <<>>
  /\ content = NotTyped
  /\ answer = NotTyped
  /\ selection = "unset"
  /\ retries = 0
  /\ member_npubs = <<>>
  /\ member_key_package_events = <<>>
  /\ member_key_package_events_dict = <<>>
  /\ welcome_rumors_json = <<>>
  /\ event_id_to_npub = EmptyDict
  /\ expiration = 0
  /\ pos = 0
  /\ dispatch_time = 0
  /\ dispatch_args = NoArgs
  /\ groups = 0
  /\ group = 0
  /\ welcomes = 0
  /\ fetched = <<>>
  /\ engine = <<>>
  /\ wraps = <<>>
  /\ sent = <<>>
  /\ out = <<>>

(* ------------------------------ messages ------------------------------- *)
ErrException == "Error: <exception>"
ErrEmptyName == "Error: Group name cannot be empty"
ErrNoMembers == "Error: At least one member npub is required"
ErrNotFound == "Error: Could not find key package"
ErrEmptyNpub == "Error: npub cannot be empty"
ErrEmptyContent == "Error: Message content cannot be empty"
OkCreated == "Group created successfully"
OkInvited == "Invitation sent"
OkSent == "Message sent to group"
OkAccepted == "Accepted invite to group"

\* the line a handler prints after its app call returned normally
SuccessMsg(o) ==
  CASE o = "create" -> OkCreated
    [] o = "invite" -> OkInvited
    [] o = "send" -> OkSent
    [] OTHER -> OkAccepted

\* the app call returned to its handler, which prints its success line
Returned(msgs) ==
  /\ pc' = "done"
  /\ out' = out \o msgs \o <<SuccessMsg(op)>>

\* Raised that lets the exception leave the interactive loop
RaisedExits ==
  /\ pc' = "exited"
  /\ out' = Append(out, ErrException)

\* Raised with a handler that swallows the exception without a report
RaisedQuiet ==
  /\ pc' = "done"
  /\ out' = out

\* an exception left the app call and is caught by `except Exception' of the handler
Raised ==
  /\ pc' = "done"
  /\ out' = Append(out, ErrException)

(* ------------------------------ main loop ------------------------------ *)
\* the handler returned: its locals are gone and main prints the menu again
MainLoop ==
  /\ pc = "done"
  /\ pc' = "menu"
  /\ op' = "none"
  /\ name' = NotTyped /\ npubs_input' = <<>> /\ content' = NotTyped
  /\ answer' = NotTyped
  /\ member_npubs' = <<>>
  /\ member_key_package_events' = <<>>
  /\ member_key_package_events_dict' = <<>>
  /\ welcome_rumors_json' = <<>>
  /\ event_id_to_npub' = EmptyDict
  /\ expiration' = 0 /\ pos' = 0 /\ dispatch_time' = 0
  /\ dispatch_args' = NoArgs
  /\ groups' = 0 /\ group' = 0 /\ welcomes' = 0
  /\ fetched' = <<>> /\ engine' = <<>> /\ wraps' = <<>> /\ sent' = <<>>
  /\ out' = <<>>
  /\ selection' = "unset" /\ retries' = 0
  /\ UNCHANGED now

(* ------------------------------ the clock ------------------------------ *)
\* the clock advances while the program waits in an await
AwaitPoints == {"cg_fetch", "inv_fetch", "dispatch"}
Tick ==
  /\ pc \in AwaitPoints
  /\ now < MaxTime
  /\ now' = now + 1
  /\ UNCHANGED <<pc, op, inputs, locals, logs, selector>>

(* ------------------------------ fetch_keypackage ----------------------- *)
\* client.fetch_events(filter, 10s) for kind 443, author npub, limit 1:
\* the events found before the timeout (none, or the one newest)
FetchedEvents(npub) ==
  {<<>>} \cup {<<kp>> : kp \in {k \in KeyPackages : k.pubkey = npub}}

\* an entry of the log of resolution queries
Query(npub, result, kp) == [npub |-> npub, result |-> result, kp |-> kp]
QueryOf(npub, kp) == Query(npub, IF kp = None THEN "none" ELSE "found", kp)

\* if events: return events.first()   else None
FetchKeypackageResult(events) ==
  IF Len(events) >= FetchLimit THEN Head(events) ELSE None

(* ------------------------------ create group --------------------------- *)
Names == {"", "friends"}
Pieces == Npubs \cup {""}
NpubInputs == UNION {[1..k -> Pieces] : k \in 1..MaxMembers}

\* Empty that accepts every input
EmptyNever(text) == FALSE

\* `not text' on a stripped input line
Empty(text) == text = ""

\* [npub.strip() for npub in npubs_input.split(",") if npub.strip()]
ParseNpubs(pieces) == SelectSeq(pieces, LAMBDA p : p # "")

\* handle_create_group up to the call of app.create_group
HandleCreateGroup ==
  /\ pc = "menu"
  /\ \E nm \in Names, pieces \in NpubInputs :
       LET npubs == ParseNpubs(pieces)
       IN /\ op' = "create"
          /\ name' = nm /\ content' = NotTyped /\ answer' = NotTyped
          /\ npubs_input' = (IF Empty(nm) THEN <<>> ELSE pieces)
          /\ fetched' = <<>> /\ engine' = <<>> /\ wraps' = <<>> /\ sent' = <<>>
          /\ member_key_package_events' = <<>>
          /\ member_key_package_events_dict' = <<>>
          /\ welcome_rumors_json' = <<>>
          /\ event_id_to_npub' = EmptyDict
          /\ groups' = 0 /\ group' = 0 /\ welcomes' = 0
          /\ IF Empty(nm)
               THEN /\ out' = <<ErrEmptyName>>
                    /\ pc' = "done" /\ member_npubs' = <<>> /\ pos' = 0
             ELSE IF Len(npubs) = 0
               THEN /\ out' = <<ErrNoMembers>>
                    /\ pc' = "done" /\ member_npubs' = <<>> /\ pos' = 0
             ELSE /\ out' = <<>>
                  /\ pc' = "cg_fetch" /\ member_npubs' = npubs /\ pos' = 1
  /\ UNCHANGED <<now, expiration, dispatch_time, dispatch_args, selector>>

\* CreateGroupAfterFetch without the return on a missing key package
CreateGroupAfterFetchNoReturn(kp, i, n) ==
  IF i = n THEN "engine" ELSE "next"

\* CreateGroupAfterFetch that goes on to the next identifier after a miss
CreateGroupAfterFetchSkip(kp, i, n) ==
  IF i = n THEN (IF Not(kp) THEN "return" ELSE "engine") ELSE "next"

\* control flow of the resolution loop of create_group after fetch_keypackage
\* returned kp for the i-th of n identifiers
CreateGroupAfterFetch(kp, i, n) ==
  IF Not(kp) THEN "return"
  ELSE IF i = n THEN "engine" ELSE "next"

\* one iteration of the resolution loop of create_group
CreateGroupFetch ==
  /\ pc = "cg_fetch"
  /\ LET npub == member_npubs[pos]
     IN IF ~PublicKeyParseOk(npub)
          THEN /\ Raised
               /\ UNCHANGED <<fetched, member_key_package_events,
                              member_key_package_events_dict, pos>>
        ELSE \/ /\ fetched' = Append(fetched, Query(npub, "raise", None))
                /\ Raised
                /\ UNCHANGED <<member_key_package_events,
                               member_key_package_events_dict, pos>>
             \/ \E events \in FetchedEvents(npub) :
                     LET kp == FetchKeypackageResult(events)
                         ctl == CreateGroupAfterFetch(kp, pos, Len(member_npubs))
                     IN /\ fetched' = Append(fetched, QueryOf(npub, kp))
                        /\ IF Not(kp)
                             THEN UNCHANGED <<member_key_package_events,
                                              member_key_package_events_dict>>
                           ELSE /\ member_key_package_events' =
                                     Append(member_key_package_events, as_json(kp))
                                /\ member_key_package_events_dict' =
                                     Append(member_key_package_events_dict, kp)
                        /\ pos' = pos + 1
                        /\ IF ctl = "return" THEN Returned(<<ErrNotFound>>)
                           ELSE /\ pc' = (IF ctl = "engine" THEN "cg_engine" ELSE "cg_fetch")
                                /\ out' = (IF Not(kp) THEN Append(out, ErrNotFound) ELSE out)
  /\ UNCHANGED <<op, now, inputs, member_npubs, welcome_rumors_json,
                 event_id_to_npub, expiration, dispatch_time, dispatch_args,
                 groups, group, welcomes, engine, wraps, sent, selector>>

\* PublishWelcomeRumors that pairs the identifiers with the tickets in
\* reverse order
PublishWelcomeRumorsSwapped(rumors, npubs, kps) ==
  LET swapped == [i \in 1..Len(kps) |-> kps[Len(kps) + 1 - i]]
  IN /\ welcome_rumors_json' = rumors
     /\ event_id_to_npub' = ZipDict(npubs, swapped)
     /\ expiration' = Expiration(now)
     /\ dispatch_time' = now
     /\ dispatch_args' = [member_npubs |-> npubs, member_key_package_events |-> swapped]
     /\ pos' = 1
     /\ pc' = "dispatch"

\* publish_welcome_rumors up to its loop, called with a non-empty rumor list
PublishWelcomeRumors(rumors, npubs, kps) ==
  /\ welcome_rumors_json' = rumors
  /\ event_id_to_npub' = ZipDict(npubs, kps)
  /\ expiration' = Expiration(now)
  /\ dispatch_time' = now
  /\ dispatch_args' = [member_npubs |-> npubs, member_key_package_events |-> kps]
  /\ pos' = 1
  /\ pc' = "dispatch"

\* a call of a state-changing engine operation; ok: it returned, ~ok: it raised
CreateGroupCall(tickets, ok) ==
  [call |-> "create_group", creator |-> Me, tickets |-> tickets,
   relays |-> Relays, admins |-> <<Me>>, ok |-> ok]
AddMembersCall(g, tickets, ok) ==
  [call |-> "add_members", group |-> g, tickets |-> tickets, ok |-> ok]
CreateMessageCall(g, text, returned, ok) ==
  [call |-> "create_message", group |-> g, sender |-> Me, content |-> text,
   kind |-> 1, returned |-> returned, ok |-> ok]
AcceptWelcomeCall(w, ok) == [call |-> "accept_welcome", welcome |-> w, ok |-> ok]

\* self.mdk.create_group(...) and what follows it in create_group
CreateGroupEngine ==
  /\ pc = "cg_engine"
  /\ \/ /\ engine' = Append(engine, CreateGroupCall(member_key_package_events, FALSE))
        /\ Raised
        /\ UNCHANGED <<welcome_rumors_json, event_id_to_npub, expiration,
                       dispatch_time, dispatch_args, pos>>
     \/ \E rumors \in RumorLists(now) :
          /\ engine' = Append(engine, CreateGroupCall(member_key_package_events, TRUE))
          /\ IF Len(rumors) = 0
               THEN /\ Returned(<<>>)
                    /\ UNCHANGED <<welcome_rumors_json, event_id_to_npub, expiration,
                                   dispatch_time, dispatch_args, pos>>
             ELSE /\ PublishWelcomeRumors(rumors, member_npubs,
                                          member_key_package_events_dict)
                  /\ out' = out
  /\ UNCHANGED <<op, now, inputs, member_npubs, member_key_package_events,
                 member_key_package_events_dict, groups, group, welcomes,
                 fetched, wraps, sent, selector>>

(* ------------------------------ dispatch loop -------------------------- *)
\* DispatchAfterItem without the per-item except clause
DispatchAfterItemRaise(failed, i, n) ==
  IF failed THEN "raise" ELSE IF i = n THEN "return" ELSE "next"

\* control flow of the loop of publish_welcome_rumors after item i of n;
\* failed: the try block of the item raised
DispatchAfterItem(failed, i, n) ==
  IF i = n THEN "return" ELSE "next"

\* one iteration of the loop of publish_welcome_rumors
DispatchStep ==
  /\ pc = "dispatch"
  /\ LET rumor == welcome_rumors_json[pos]
         d == DispatchItem(rumor, event_id_to_npub)
     IN \E ok \in (IF d.act = "wrap" THEN BOOLEAN ELSE {FALSE}) :
          LET failed == d.act = "error" \/ (d.act = "wrap" /\ ~ok)
              ctl == DispatchAfterItem(failed, pos, Len(welcome_rumors_json))
              msgs == IF failed THEN <<ErrException>> ELSE <<>>
          IN /\ wraps' = (IF d.act = "wrap"
                            THEN Append(wraps, [rumor |-> pos, to |-> d.to,
                                                relays |-> Relays,
                                                expiration |-> expiration,
                                                at |-> now, ok |-> ok])
                          ELSE wraps)
             /\ pos' = pos + 1
             /\ CASE ctl = "return" -> Returned(msgs)
                  [] ctl = "raise" -> Raised
                  [] OTHER -> pc' = "dispatch" /\ out' = out \o msgs
  /\ UNCHANGED <<op, now, inputs, member_npubs, member_key_package_events,
                 member_key_package_events_dict, welcome_rumors_json,
                 event_id_to_npub, expiration, dispatch_time, dispatch_args,
                 groups, group, welcomes, fetched, engine, sent, selector>>

(* ------------------------------ selectors ------------------------------ *)
\* what the user types at a number prompt: 'q', an integer n, or other text;
\* "interrupt" is a KeyboardInterrupt raised by input()
Choice(kind, n) == [kind |-> kind, n |-> n]
Choices(len) ==
  {Choice("q", 0), Choice("text", 0), Choice("interrupt", 0)}
  \cup {Choice("int", n) : n \in 0..(len + 1)}

\* SelectFrom without the range check on the index
SelectFromAny(choice, len) ==
  IF choice.kind \in {"q", "text", "interrupt"} THEN [res |-> "none", item |-> 0]
  ELSE [res |-> "item", item |-> choice.n]

\* one pass of the `while True' loop of select_group and of the invite prompt:
\* the 1-based item chosen, "none" for leaving without one, "again" for
\* another prompt
SelectFrom(choice, len) ==
  IF choice.kind \in {"q", "text", "interrupt"} THEN [res |-> "none", item |-> 0]
  ELSE IF 0 <= choice.n - 1 /\ choice.n - 1 < len
    THEN [res |-> "item", item |-> choice.n]
  ELSE [res |-> "again", item |-> 0]

\* a handler starts: the logs and locals of the previous one are gone
StartHandler(o) ==
  /\ pc = "menu"
  /\ op' = o
  /\ fetched' = <<>> /\ wraps' = <<>> /\ sent' = <<>>
  /\ member_npubs' = <<>>
  /\ member_key_package_events' = <<>>
  /\ member_key_package_events_dict' = <<>>
  /\ welcome_rumors_json' = <<>>
  /\ event_id_to_npub' = EmptyDict
  /\ pos' = 0 /\ group' = 0
  /\ name' = NotTyped /\ npubs_input' = <<>> /\ content' = NotTyped
  /\ retries' = 0
  /\ UNCHANGED <<now, expiration, dispatch_time, dispatch_args>>

\* app.select_group() up to its prompt: self.mdk.get_groups()
SelectGroupStart(o) ==
  /\ StartHandler(o)
  /\ engine' = <<[call |-> "get_groups"]>>
  /\ welcomes' = 0 /\ answer' = NotTyped
  /\ \/ /\ pc' = "done" /\ out' = <<ErrException>> /\ groups' = 0
        /\ selection' = "unset"
     \/ \E n \in 0..MaxGroups :
          /\ groups' = n
          /\ out' = <<>>
          /\ selection' = (IF n = 0 THEN "none" ELSE "unset")
          /\ pc' = (IF n = 0 THEN "done" ELSE "select_group")

HandleInviteToGroup == SelectGroupStart("invite")

HandleSendMessage == SelectGroupStart("send")

\* AfterSelectGroup without the `if not group: return' of the handlers
AfterSelectGroupNoReturn(res, o) ==
  IF res = "again" THEN "select_group"
  ELSE IF o = "invite" THEN "invite_npub" ELSE "send_content"

\* where handler o goes on after one pass of the prompt loop of select_group
AfterSelectGroup(res, o) ==
  CASE res = "again" -> "select_group"
    [] res = "none" -> "done"
    [] OTHER -> (IF o = "invite" THEN "invite_npub" ELSE "send_content")

\* what one pass of a prompt loop does to the record of the selector
Selected(res) ==
  IF res = "again"
    THEN retries < MaxRetries /\ retries' = retries + 1 /\ UNCHANGED selection
  ELSE selection' = res /\ UNCHANGED retries

\* the prompt loop of select_group and the handler's `if not group: return'
SelectGroupInput ==
  /\ pc = "select_group"
  /\ \E choice \in Choices(groups) :
       LET sel == SelectFrom(choice, groups)
       IN /\ group' = sel.item
          /\ Selected(sel.res)
          /\ pc' = AfterSelectGroup(sel.res, op)
  /\ UNCHANGED <<op, now, inputs, member_npubs, member_key_package_events,
                 member_key_package_events_dict, welcome_rumors_json,
                 event_id_to_npub, expiration, pos, dispatch_time, dispatch_args,
                 groups, welcomes, logs>>

(* ------------------------------ invite member -------------------------- *)
\* handle_invite_to_group from the npub prompt to the call of invite_member
InviteInput ==
  /\ pc = "invite_npub"
  /\ \E npub \in Pieces :
       IF Empty(npub)
         THEN /\ out' = Append(out, ErrEmptyNpub)
              /\ pc' = "done"
              /\ UNCHANGED member_npubs
       ELSE /\ member_npubs' = <<npub>>
            /\ pc' = "inv_fetch"
            /\ out' = out
  /\ UNCHANGED <<op, now, inputs, member_key_package_events,
                 member_key_package_events_dict, welcome_rumors_json,
                 event_id_to_npub, expiration, pos, dispatch_time, dispatch_args,
                 groups, group, welcomes, fetched, engine, wraps, sent, selector>>

\* InviteAfterFetch without the return on a missing key package
InviteAfterFetchNoReturn(kp) ==
  IF ~JsonDumpsOk(kp) THEN "raise" ELSE "engine"

\* control flow of invite_member after fetch_keypackage returned kp
InviteAfterFetch(kp) ==
  IF Not(kp) THEN "return"
  ELSE IF ~JsonDumpsOk(kp) THEN "raise"
  ELSE "engine"

\* invite_member: fetch_keypackage, add_members and the call of
\* publish_welcome_rumors
InviteMember ==
  /\ pc = "inv_fetch"
  /\ LET npub == member_npubs[1]
         keep == UNCHANGED <<engine, welcome_rumors_json, event_id_to_npub,
                             expiration, dispatch_time, dispatch_args, pos>>
     IN IF ~PublicKeyParseOk(npub)
          THEN Raised /\ keep /\ UNCHANGED fetched
        ELSE \/ /\ fetched' = Append(fetched, Query(npub, "raise", None))
                /\ Raised /\ keep
             \/ \E events \in FetchedEvents(npub) :
                     LET kp == FetchKeypackageResult(events)
                         ctl == InviteAfterFetch(kp)
                     IN /\ fetched' = Append(fetched, QueryOf(npub, kp))
                        /\ CASE ctl = "return" -> Returned(<<>>) /\ keep
                          [] ctl = "raise" -> Raised /\ keep
                          [] OTHER ->
                             \/ /\ engine' = Append(engine,
                                     AddMembersCall(group, <<JsonDumps(kp)>>, FALSE))
                                /\ Raised
                                /\ UNCHANGED <<welcome_rumors_json, event_id_to_npub,
                                               expiration, dispatch_time,
                                               dispatch_args, pos>>
                             \/ \E rumors \in RumorLists(now) :
                                  /\ engine' = Append(engine,
                                       AddMembersCall(group, <<JsonDumps(kp)>>, TRUE))
                                  /\ IF Len(rumors) = 0
                                       THEN /\ Returned(<<>>)
                                            /\ UNCHANGED <<welcome_rumors_json,
                                                 event_id_to_npub, expiration,
                                                 dispatch_time, dispatch_args, pos>>
                                     ELSE /\ PublishWelcomeRumors(rumors, <<npub>>, <<kp>>)
                                          /\ out' = out
  /\ UNCHANGED <<op, now, inputs, member_npubs, member_key_package_events,
                 member_key_package_events_dict, groups, group, welcomes,
                 wraps, sent, selector>>

(* ------------------------------ send message --------------------------- *)
Contents == {"", "hello"}

\* what self.mdk.create_message returns: text that is not JSON, the JSON of an
\* empty object, of an object that is no event, or of a signed event for the
\* group; form is the layout of the text (whitespace, escapes)
MessageJson(kind, form, g, text) ==
  [type |-> "str", kind |-> kind, form |-> form, group |-> g, content |-> text]
Forms == {"compact", "spaced"}
MessageJsons(g, text) ==
  {MessageJson(k, "compact", g, text) : k \in {"notjson", "empty", "object"}}
  \cup {MessageJson("event", f, g, text) : f \in Forms}
\* the value of event_json when create_message raised
NoMessage == MessageJson("none", "compact", 0, "")

\* json.loads(text) succeeds
JsonLoadsOk(text) == text.kind # "notjson"
\* json.loads(text): the dict, which keeps nothing of the layout of the text
JsonLoads(text) ==
  [type |-> "dict", kind |-> text.kind, group |-> text.group, content |-> text.content]
\* truthiness of the dict json.loads returned
DictTruthy(dct) == dct.kind # "empty"
\* json.dumps(dct): the text of the dict in the layout of json.dumps
JsonDumpsDict(dct) == MessageJson(dct.kind, "dumps", dct.group, dct.content)
\* Event.from_json(text): the event, or an exception when text is no event
EventFromJsonOk(text) == text.kind = "event"
EventFromJson(text) ==
  [type |-> "Event", group |-> text.group, content |-> text.content]

\* PublishMessageReport that reports success whatever send_event did
PublishMessageReportAlways(ok) == OkSent

\* what handle_send_message prints after publish_message returned (ok) or raised
PublishMessageReport(ok) == IF ok THEN OkSent ELSE ErrException

\* handle_send_message from the content prompt on: send_message, publish_message
SendInput ==
  /\ pc = "send_content"
  /\ pc' = "done"
  /\ \E text \in Contents :
       /\ content' = text
       /\ IF Empty(text)
           THEN /\ out' = Append(out, ErrEmptyContent)
                /\ UNCHANGED <<engine, sent>>
         ELSE \/ /\ engine' = Append(engine,
                                     CreateMessageCall(group, text, NoMessage, FALSE))
                 /\ out' = Append(out, ErrException)
                 /\ UNCHANGED sent
              \/ \E event_json \in MessageJsons(group, text) :
                   /\ engine' = Append(engine,
                                       CreateMessageCall(group, text, event_json, TRUE))
                   /\ IF ~JsonLoadsOk(event_json)
                        THEN /\ out' = Append(out, ErrException)
                             /\ UNCHANGED sent
                      ELSE LET message_event == JsonLoads(event_json)
                               dumped == JsonDumpsDict(message_event)
                           IN IF ~DictTruthy(message_event)
                                THEN UNCHANGED <<out, sent>>
                              ELSE IF ~EventFromJsonOk(dumped)
                                THEN /\ out' = Append(out, ErrException)
                                     /\ UNCHANGED sent
                              ELSE \E ok \in BOOLEAN :
                                     /\ sent' = Append(sent,
                                          [event |-> EventFromJson(dumped), ok |-> ok])
                                     /\ out' = Append(out, PublishMessageReport(ok))
  /\ UNCHANGED <<op, now, name, npubs_input, answer, locals, fetched, wraps, selector>>

(* ------------------------------ pending invites ------------------------ *)
Answers == {"y", "n"}

\* handle_view_pending_invites up to the invite prompt
HandleViewPendingInvites ==
  /\ StartHandler("pending")
  /\ engine' = <<[call |-> "get_pending_welcomes"]>>
  /\ groups' = 0
  /\ selection' = "unset"
  /\ \/ /\ pc' = "done" /\ out' = <<ErrException>> /\ welcomes' = 0
        /\ answer' = NotTyped
     \/ \E n \in 0..MaxWelcomes, typed \in Answers :
          /\ welcomes' = n
          /\ out' = <<>>
          /\ answer' = (IF n > 0 THEN typed ELSE NotTyped)
          /\ pc' = (IF n > 0 /\ typed = "y" THEN "pick_invite" ELSE "done")

\* the prompt loop of handle_view_pending_invites and accept_welcome
PickInvite ==
  /\ pc = "pick_invite"
  /\ \E choice \in Choices(welcomes) :
       LET sel == SelectFrom(choice, welcomes)
       IN /\ Selected(sel.res)
          /\ CASE sel.res = "again" -> UNCHANGED <<pc, engine, out>>
               [] sel.res = "none" -> pc' = "done" /\ UNCHANGED <<engine, out>>
               [] OTHER ->
                  \E ok \in BOOLEAN :
                    /\ engine' = Append(engine, AcceptWelcomeCall(sel.item, ok))
                    /\ IF ok THEN Returned(<<>>) ELSE Raised
  /\ UNCHANGED <<op, now, inputs, locals, fetched, wraps, sent>>

(* ------------------------------ main menu ------------------------------ *)
ErrEmptyMetaName == "Error: Name cannot be empty"
OkMetadata == "Metadata published successfully"
InvalidChoice == "Invalid choice. Please enter a number between 1 and 7."

\* kinds of the events publish_metadata sends, in order
MetadataKinds == <<0, 10002, 10050, 10051>>
\* a send_event_builder call of generate_keypackage or publish_metadata
BuilderSend(k) == [builder |-> k]

\* choice "7": break, then app.close()
Exit ==
  /\ pc = "menu"
  /\ pc' = "exited" /\ op' = "exit"
  /\ UNCHANGED <<now, inputs, locals, logs, selector>>

\* KeyboardInterrupt raised by the input() of the menu: break, then app.close()
MenuInterrupt ==
  /\ pc = "menu"
  /\ pc' = "exited" /\ op' = "interrupt"
  /\ UNCHANGED <<now, inputs, locals, logs, selector>>

\* a choice outside 1..7, or input() raising an Exception such as EOFError
MenuOther ==
  /\ pc = "menu"
  /\ pc' = "done"
  /\ \/ op' = "invalid" /\ out' = <<InvalidChoice>>
     \/ op' = "menu" /\ out' = <<ErrException>>
  /\ UNCHANGED <<now, inputs, locals, fetched, engine, wraps, sent, selector>>

\* choice "1": handle_generate_keypackage, which catches Exception only, so
\* that a KeyboardInterrupt reaches the `except KeyboardInterrupt' of main
HandleGenerateKeypackage ==
  /\ pc = "menu"
  /\ engine' = <<[call |-> "create_key_package_for_event"]>>
  /\ \/ /\ op' = "keypackage" /\ pc' = "done"
        /\ \/ out' = <<ErrException>> /\ sent' = <<>>
           \/ /\ sent' = <<BuilderSend(443)>>
              /\ \E ok \in BOOLEAN : out' = (IF ok THEN <<>> ELSE <<ErrException>>)
     \/ /\ op' = "interrupt" /\ pc' = "exited"
        /\ out' = <<>> /\ sent' = <<>>
  /\ UNCHANGED <<now, inputs, locals, fetched, wraps, selector>>

\* choice "6": handle_publish_metadata and publish_metadata; n is the number
\* of send_event_builder calls made, the last of which raised unless ok
HandlePublishMetadata ==
  /\ pc = "menu"
  /\ pc' = "done" /\ op' = "metadata"
  /\ \E nm \in Names :
       IF Empty(nm)
         THEN out' = <<ErrEmptyMetaName>> /\ sent' = <<>>
       ELSE \E n \in 1..Len(MetadataKinds), ok \in BOOLEAN :
              /\ ok => n = Len(MetadataKinds)
              /\ sent' = [i \in 1..n |-> BuilderSend(MetadataKinds[i])]
              /\ out' = <<IF ok THEN OkMetadata ELSE ErrException>>
  /\ UNCHANGED <<now, inputs, locals, fetched, engine, wraps, selector>>

Next ==
  \/ MainLoop
  \/ Exit
  \/ MenuInterrupt
  \/ MenuOther
  \/ HandleGenerateKeypackage
  \/ HandlePublishMetadata
  \/ Tick
  \/ HandleCreateGroup
  \/ CreateGroupFetch
  \/ CreateGroupEngine
  \/ DispatchStep
  \/ HandleInviteToGroup
  \/ SelectGroupInput
  \/ InviteInput
  \/ InviteMember
  \/ HandleSendMessage
  \/ SendInput
  \/ HandleViewPendingInvites
  \/ PickInvite

Spec == Init /\ [][Next]_vars

(* ======================================================================= *)
(* Properties                                                              *)
(* ======================================================================= *)
Range(f) == {f[i] : i \in DOMAIN f}
Count(f, P(_)) == Cardinality({i \in DOMAIN f : P(f[i])})

\* the handler ran to its end and the program is back at the menu
Done(o) == op = o /\ pc = "done"
\* publish_welcome_rumors was called by the current handler
Dispatched == Len(welcome_rumors_json) > 0
\* ticket ids of the identifier->ticket mapping given to dispatch
MappedIds == {dispatch_args.member_key_package_events[i].id :
                i \in DOMAIN dispatch_args.member_key_package_events}
\* identifiers the mapping associates with ticket id k
OwnersOf(k) == {dispatch_args.member_npubs[i] :
                  i \in {j \in DOMAIN dispatch_args.member_key_package_events :
                           dispatch_args.member_key_package_events[j].id = k}}
\* the rumor is a JSON object whose first 'e' tag names a ticket of the mapping
References(rumor) ==
  /\ rumor.kind = "object"
  /\ \E i \in DOMAIN rumor.tags :
       /\ Len(rumor.tags[i]) >= 2 /\ rumor.tags[i][1] = "e"
       /\ rumor.tags[i][2] \in MappedIds
       /\ \A j \in 1..(i - 1) : ~(Len(rumor.tags[j]) >= 2 /\ rumor.tags[j][1] = "e")
\* some resolution query of the current handler returned NotFound
SomeNotFound == \E i \in DOMAIN fetched : fetched[i].result = "none"
EngineCalls(c) == {i \in DOMAIN engine : engine[i].call = c}

\* C1: dispatch gift-wraps each welcome rumor to at most one identity, that
\* identity is one the mapping associates with the rumor's referenced ticket,
\* and a rumor whose 'e' reference is missing or is no ticket of the mapping
\* is never gift-wrapped.
C1_DispatchOnlyToMapped ==
  \A i \in DOMAIN wraps :
    /\ References(welcome_rumors_json[wraps[i].rumor])
    /\ wraps[i].to \in OwnersOf(FirstETag(welcome_rumors_json[wraps[i].rumor].tags))
    /\ \A j \in DOMAIN wraps :
         welcome_rumors_json[wraps[j].rumor] = welcome_rumors_json[wraps[i].rumor]
           => wraps[j].to = wraps[i].to

\* a finished batch with an unreferenced rumor that was dropped and a
\* referenced one that was gift-wrapped
C1_Witness ==
  /\ Done("create") /\ Len(welcome_rumors_json) = 2
  /\ ~References(welcome_rumors_json[1])
  /\ References(welcome_rumors_json[2])
  /\ Len(wraps) = 1 /\ wraps[1].rumor = 2

\* C2: once a resolution of CreateGroup returned NotFound, the invocation makes
\* no engine call, no gift-wrap and no publish.
C2_CreateAbortsBeforeEffect ==
  (op = "create" /\ SomeNotFound) => (engine = <<>> /\ wraps = <<>> /\ sent = <<>>)

\* CreateGroup of two identifiers ended after the second one was not found
C2_Witness ==
  /\ Done("create") /\ Len(member_npubs) = 2
  /\ Len(fetched) = 2 /\ fetched[1].result = "found" /\ fetched[2].result = "none"

\* C3 (as claimed): a CreateGroup call with N well-formed member identifiers
\* that returned has issued exactly N resolution queries, one per identifier.
C3_ExactlyNQueries ==
  (/\ Done("create") /\ Len(member_npubs) > 0
   /\ \A i \in DOMAIN member_npubs : PublicKeyParseOk(member_npubs[i])) =>
    /\ Len(fetched) = Len(member_npubs)
    /\ \A i \in DOMAIN fetched : fetched[i].npub = member_npubs[i]

\* C3 (amended): CreateGroup queries the identifiers in list order, one query
\* each, and stops at the first identifier that is malformed or whose query
\* returns NotFound or fails; it issues all N queries exactly when the first
\* N - 1 resolve and the N-th is well-formed, and the engine is called only
\* after N successful queries.
C3_QueriesUntilFirstFailure ==
  (op = "create") =>
    /\ Len(fetched) <= Len(member_npubs)
    /\ \A i \in DOMAIN fetched :
         /\ fetched[i].npub = member_npubs[i]
         /\ i < Len(fetched) => fetched[i].result = "found"
    /\ (engine # <<>> \/ pc \in {"cg_engine", "dispatch"}) =>
         /\ Len(fetched) = Len(member_npubs)
         /\ \A i \in DOMAIN fetched : fetched[i].result = "found"
    /\ (pc = "done" /\ Len(fetched) < Len(member_npubs)) =>
         \/ /\ Len(fetched) > 0
            /\ fetched[Len(fetched)].result \in {"none", "raise"}
         \/ ~PublicKeyParseOk(member_npubs[Len(fetched) + 1])
    /\ pc = "cg_fetch" => Len(fetched) = pos - 1

\* CreateGroup of two identifiers returned after one query only
C3_Witness ==
  /\ Done("create") /\ Len(member_npubs) = 2
  /\ Len(fetched) = 1 /\ fetched[1].result = "none"

\* C4: once the resolution of InviteMember returned NotFound, add_members is
\* not invoked and no welcome is gift-wrapped.
C4_InviteAbortsBeforeEngine ==
  (op = "invite" /\ SomeNotFound) => (EngineCalls("add_members") = {} /\ wraps = <<>>)

\* InviteMember ended after its resolution returned NotFound
C4_Witness ==
  /\ Done("invite") /\ group > 0
  /\ Len(fetched) = 1 /\ fetched[1].result = "none"

\* C6: every gift-wrap of a dispatch carries the expiration dispatch_time + 30
\* days (2,592,000 s), whatever the creation time of the rumor and the time of
\* the delivery, hence the same value for the whole batch.
C6_ExpirationIsDispatchTimePlus30Days ==
  \A i \in DOMAIN wraps : wraps[i].expiration = dispatch_time + 2592000

\* two deliveries of one batch whose rumors were created before the dispatch
C6_Witness ==
  /\ Len(wraps) = 2 /\ wraps[1].rumor # wraps[2].rumor
  /\ welcome_rumors_json[wraps[1].rumor].created_at < dispatch_time
  /\ wraps[1].expiration = wraps[2].expiration

\* gift_wrap_to calls made for the rumor at index j
WrapsOf(j) == {i \in DOMAIN wraps : wraps[i].rumor = j}
\* the dispatch loop ran over the whole batch and returned to its caller
DispatchReturned ==
  /\ Dispatched /\ pc = "done"
  /\ pos = Len(welcome_rumors_json) + 1
  /\ out[Len(out)] = SuccessMsg(op)
\* rumor j got exactly one delivery attempt, to the mapped identifier
AttemptedOnce(j) ==
  /\ Cardinality(WrapsOf(j)) = 1
  /\ \A i \in WrapsOf(j) :
       wraps[i].to \in OwnersOf(FirstETag(welcome_rumors_json[j].tags))

\* C7 (as claimed): when a dispatch batch ends, every rumor whose referenced
\* ticket id is a key of the mapping got exactly one delivery attempt to the
\* mapped identifier, and the loop ran to its end without raising.
C7_EveryReferencedRumorAttempted ==
  (Dispatched /\ pc = "done") =>
    /\ DispatchReturned
    /\ \A j \in DOMAIN welcome_rumors_json :
         References(welcome_rumors_json[j]) => AttemptedOnce(j)

\* C7 (amended): when a dispatch batch ends, every rumor that is a well-formed
\* unsigned event and whose referenced ticket id is a key of the mapping got
\* exactly one delivery attempt to the mapped identifier, whatever happened to
\* the other rumors; the loop ran over all rumors and did not raise.
C7_WellFormedReferencedRumorAttempted ==
  (Dispatched /\ pc = "done") =>
    /\ DispatchReturned
    /\ \A j \in DOMAIN welcome_rumors_json :
         (References(welcome_rumors_json[j]) /\ welcome_rumors_json[j].valid)
           => AttemptedOnce(j)

\* a batch whose first delivery failed and whose second was still made
C7_Witness ==
  /\ DispatchReturned /\ Len(welcome_rumors_json) = 2
  /\ Len(wraps) = 2
  /\ wraps[1].rumor = 1 /\ ~wraps[1].ok
  /\ wraps[2].rumor = 2 /\ wraps[2].ok

\* the engine returned one well-formed welcome rumor per submitted ticket
OneRumorPerTicket ==
  /\ Len(welcome_rumors_json) = Len(member_key_package_events_dict)
  /\ \A j \in DOMAIN welcome_rumors_json :
       welcome_rumors_json[j].kind = "object" /\ welcome_rumors_json[j].valid
  /\ \A i \in DOMAIN member_key_package_events_dict :
       Count(welcome_rumors_json,
             LAMBDA r : FirstETag(r.tags) = member_key_package_events_dict[i].id)
       = Count(member_key_package_events_dict,
               LAMBDA k : k.id = member_key_package_events_dict[i].id)

\* C8: when all N identifiers of a CreateGroup resolved and the engine returned
\* one welcome rumor per submitted ticket, the invocation made exactly one
\* engine call, create_group with the N resolved tickets and an admin list
\* holding the creator, then one gift-wrap per member and none to an identity
\* outside member_npubs.
C8_CreateGroupOneCallOneDeliveryEach ==
  (Done("create") /\ Dispatched /\ OneRumorPerTicket) =>
    /\ Len(engine) = 1
    /\ engine[1].call = "create_group"
    /\ Len(fetched) = Len(member_npubs)
    /\ engine[1].tickets = [i \in 1..Len(member_npubs) |-> as_json(fetched[i].kp)]
    /\ \A i \in DOMAIN fetched : fetched[i].result = "found"
    /\ Me \in Range(engine[1].admins)
    /\ Len(wraps) = Len(member_npubs)
    /\ \A m \in Npubs :
         Count(wraps, LAMBDA d : d.to = m) = Count(member_npubs, LAMBDA n : n = m)

\* a group of two distinct members, each of which got its delivery
C8_Witness ==
  /\ Done("create") /\ Dispatched /\ OneRumorPerTicket
  /\ member_npubs = <<"npub_A", "npub_B">>
  /\ Len(wraps) = 2 /\ wraps[1].to # wraps[2].to

\* C9 (as claimed): when a resolution inside CreateGroup or InviteMember
\* returned NotFound, the handler reports an identity-not-found error and
\* reports no success.
C9_NotFoundIsReportedAsError ==
  (pc = "done" /\ op \in {"create", "invite"} /\ SomeNotFound) =>
    /\ ErrNotFound \in Range(out)
    /\ OkCreated \notin Range(out)
    /\ OkInvited \notin Range(out)

NoCalls == engine = <<>> /\ fetched = <<>> /\ wraps = <<>> /\ sent = <<>>

\* C10 (as claimed): a handler that was given an empty group name, an empty
\* member list or an empty message content has made no engine call and no
\* transport call.
C10_EmptyInputBeforeAnyCall ==
  (\/ op = "create" /\ (name = "" \/ Len(ParseNpubs(npubs_input)) = 0)
   \/ op = "send" /\ content = "") => NoCalls

\* C10 (amended): an empty group name or an empty member list is rejected
\* before any engine or transport call; an empty message content is rejected
\* before create_message and before any transport call, the only call made
\* before it being the read-only get_groups query of the group selection.
C10_EmptyInputBeforeAnyEffect ==
  /\ (op = "create" /\ name = "") => (NoCalls /\ out = <<ErrEmptyName>>)
  /\ (op = "create" /\ name # "" /\ Len(ParseNpubs(npubs_input)) = 0)
       => (NoCalls /\ out = <<ErrNoMembers>>)
  /\ (op = "send" /\ content = "") =>
       /\ engine = <<[call |-> "get_groups"]>>
       /\ fetched = <<>> /\ wraps = <<>> /\ sent = <<>>
       /\ out = <<ErrEmptyContent>>

\* an empty message content was rejected after a group had been selected
C10_Witness ==
  /\ Done("send") /\ group > 0 /\ content = ""
  /\ out = <<ErrEmptyContent>>

(* ------------------------------ C11 .. C20 ----------------------------- *)
ErrorMsgs == {ErrException, ErrEmptyName, ErrNoMembers, ErrNotFound,
              ErrEmptyNpub, ErrEmptyContent, ErrEmptyMetaName}
\* the handler that just ended printed an error
ErrorReported == \E i \in DOMAIN out : out[i] \in ErrorMsgs

\* C11: the interactive loop is left only from the menu prompt, by the exit
\* choice or by an interrupt, never by a step that reports an error; a handler
\* that ended, with or without an error report, is followed by the menu.
C11_LoopLeftOnlyByExitOrInterrupt ==
  [][/\ (pc # "exited" /\ pc' = "exited") =>
          /\ pc = "menu"
          /\ op' \in {"exit", "interrupt"}
          /\ ~ErrorReported'
     /\ (pc = "done") => (pc' = "menu")]_vars

\* a transport failure of SendMessage was reported and the handler returned
\* to the loop
C11_Witness ==
  /\ Done("send") /\ Len(sent) = 1
  /\ out[Len(out)] = ErrException

\* engine calls that only read the engine's state
ReadOnlyCalls == {"get_groups", "get_pending_welcomes"}
\* the current handler made no state-changing engine call, no resolution
\* query and no transport call, and reported no error
NoEffect ==
  /\ \A i \in DOMAIN engine : engine[i].call \in ReadOnlyCalls
  /\ fetched = <<>> /\ wraps = <<>> /\ sent = <<>>
  /\ ~ErrorReported

\* C12 (as claimed): an out-of-range index or a cancel at a number prompt
\* yields "no selection", after which the handler makes no state-changing
\* engine call, no transport call and no error report.
C12_OutOfRangeOrCancelIsNoOp ==
  (selection = "none" \/ retries > 0) =>
    /\ selection # "item"
    /\ NoEffect

\* C12 (amended): a cancel ('q', a non-numeric answer, an interrupt) or an
\* empty list yields "no selection", which ends the handler with no
\* state-changing engine call, no transport call and no report; an
\* out-of-range index yields nothing: the prompt is shown again, and nothing
\* is called before an answer is accepted.
C12_CancelIsNoOpOutOfRangeAsksAgain ==
  /\ selection = "none" => (pc = "done" /\ NoEffect /\ out = <<>>)
  /\ (selection = "unset" /\ retries > 0) =>
       (pc \in {"select_group", "pick_invite"} /\ NoEffect)

\* the invite prompt was cancelled after an out-of-range answer
C12_Witness ==
  /\ Done("pending") /\ welcomes > 0
  /\ retries > 0 /\ selection = "none"

\* the resolution of the current handler's single identifier succeeded
InviteResolved ==
  op = "invite" /\ Len(fetched) = 1 /\ fetched[1].result = "found"

\* C13 (as claimed): when the resolution of InviteMember succeeded, the
\* handler, once ended, has invoked add_members exactly once, for the selected
\* group and with the one resolved ticket, and every welcome was gift-wrapped
\* to the invited identifier only.
C13_InviteAddsResolvedTicketOnce ==
  (pc = "done" /\ InviteResolved) =>
    /\ Cardinality(EngineCalls("add_members")) = 1
    /\ \A i \in EngineCalls("add_members") :
         /\ engine[i].group = group
         /\ Len(engine[i].tickets) = 1
         /\ engine[i].tickets[1].event = fetched[1].kp
    /\ \A i \in DOMAIN wraps : wraps[i].to = member_npubs[1]

\* C14 (as claimed): every gift-wrap of a dispatch is sent over the relay list
\* of the identity it is addressed to.
C14_DeliveryOverRecipientRelays ==
  \A i \in DOMAIN wraps : wraps[i].relays = RelaysOf(wraps[i].to)

SuccessMsgs == {OkCreated, OkInvited, OkSent, OkAccepted, OkMetadata}
\* the engine operations that change the engine's state
StateChangingCalls == {"create_group", "add_members", "create_message",
                       "accept_welcome"}
\* a state-changing engine call of the current handler raised
EngineFailed ==
  \E i \in DOMAIN engine :
    engine[i].call \in StateChangingCalls /\ ~engine[i].ok

\* C15: once a create_group, add_members, create_message or accept_welcome
\* call of the engine raised, the handler has ended: the failed call is its
\* last engine call, the failure is the last thing it printed, it made no
\* gift-wrap and no publish, and it printed no success line.
C15_EngineFailureAborts ==
  EngineFailed =>
    /\ pc = "done"
    /\ ~engine[Len(engine)].ok
    /\ out # <<>> /\ out[Len(out)] = ErrException
    /\ wraps = <<>> /\ sent = <<>>
    /\ \A i \in DOMAIN out : out[i] \notin SuccessMsgs

\* the engine rejected the create_group call for two resolved members
C15_Witness ==
  /\ Done("create") /\ EngineFailed
  /\ Len(fetched) = 2 /\ Len(engine[1].tickets) = 2

\* C16: SendMessage publishes at most once, only after a create_message call
\* for the selected group returned, and what it publishes is the event the
\* engine's text denotes; it reports success only when that publish succeeded,
\* and a failed publish ends the handler with an error report.
C16_PublishOnceAfterCreateMessage ==
  (op = "send") =>
    /\ Len(sent) <= 1
    /\ sent # <<>> =>
         /\ Cardinality(EngineCalls("create_message")) = 1
         /\ \A i \in EngineCalls("create_message") :
              /\ engine[i].ok
              /\ engine[i].group = group /\ group > 0
              /\ EventFromJsonOk(engine[i].returned)
              /\ sent[1].event = EventFromJson(engine[i].returned)
    /\ OkSent \in Range(out) =>
         (pc = "done" /\ Len(sent) = 1 /\ sent[1].ok /\ out = <<OkSent>>)
    /\ (sent # <<>> /\ ~sent[1].ok) => (pc = "done" /\ out = <<ErrException>>)

\* a message whose text the engine laid out with whitespace was published
\* and reported as sent
C16_Witness ==
  /\ Done("send") /\ Len(sent) = 1 /\ sent[1].ok
  /\ engine[2].returned.form = "spaced"
  /\ out = <<OkSent>>

\* the engine calls of the current handler that produce welcome rumors
ProducingCalls == EngineCalls("create_group") \cup EngineCalls("add_members")

\* C17: in CreateGroup and InviteMember, once the engine call that produces
\* the welcomes is made, the resolution log is complete and stays as it is
\* (one query per identifier, none after the call), the tickets given to the
\* engine are those of the log in order, and the identifiers and tickets given
\* to dispatch, and the mapping dispatch consults for every rumor, pair each
\* identifier with the ticket that was resolved for it and given to the engine.
C17_MappingPassedThroughUnchanged ==
  (op \in {"create", "invite"} /\ ProducingCalls # {}) =>
    /\ Cardinality(ProducingCalls) = 1
    /\ Len(fetched) = Len(member_npubs)
    /\ \A i \in DOMAIN fetched :
         fetched[i].npub = member_npubs[i] /\ fetched[i].result = "found"
    /\ \A c \in ProducingCalls :
         /\ c = Len(engine)
         /\ Len(engine[c].tickets) = Len(fetched)
         /\ \A i \in DOMAIN fetched : engine[c].tickets[i].event = fetched[i].kp
    /\ Dispatched =>
         /\ dispatch_args.member_npubs = member_npubs
         /\ dispatch_args.member_key_package_events =
              [i \in 1..Len(fetched) |-> fetched[i].kp]
         /\ event_id_to_npub =
              ZipDict(member_npubs, [i \in 1..Len(fetched) |-> fetched[i].kp])

\* a dispatch for two distinct members has ended with a delivery
C17_Witness ==
  /\ Done("create") /\ Dispatched
  /\ member_npubs = <<"npub_B", "npub_A">>
  /\ Len(fetched) = 2 /\ Len(wraps) >= 1

\* C18: every accept_welcome call of the engine is made by the pending-invites
\* handler, after the user answered 'y' to the confirmation and chose the
\* number of a listed welcome, and a handler makes at most one such call.
C18_AcceptOnlyAfterConfirmAndChoice ==
  /\ Cardinality(EngineCalls("accept_welcome")) <= 1
  /\ \A i \in EngineCalls("accept_welcome") :
       /\ op = "pending" /\ pc = "done"
       /\ engine[1].call = "get_pending_welcomes" /\ i = 2
       /\ answer = "y"
       /\ selection = "item"
       /\ engine[i].welcome \in 1..welcomes

\* a listed welcome was accepted after an out-of-range answer to the prompt
C18_Witness ==
  /\ Done("pending") /\ answer = "y" /\ retries > 0
  /\ Cardinality(EngineCalls("accept_welcome")) = 1
  /\ out = <<OkAccepted>>

\* C19 (as claimed): a resolution query that timed out or met a network error
\* ends as NotFound, like a query with an empty result; no query ends with a
\* failure raised to the caller.
C19_QueryFailureIsNotFound ==
  \A i \in DOMAIN fetched : fetched[i].result \in {"found", "none"}

\* C20: throughout CreateGroup the list of ticket JSONs and the list of ticket
\* events have the same length, their i-th elements are the text and the
\* event of the ticket resolved for the i-th identifier, that length is the
\* number of completed iterations inside the resolution loop and N from the
\* engine call on, and the mapping of dispatch gives for the i-th ticket the
\* i-th identifier.
C20_TicketListsAligned ==
  (op = "create") =>
    /\ Len(member_key_package_events) = Len(member_key_package_events_dict)
    /\ Len(member_key_package_events) <= Len(member_npubs)
    /\ \A i \in DOMAIN member_key_package_events :
         /\ member_key_package_events[i].event = member_key_package_events_dict[i]
         /\ member_key_package_events_dict[i] = fetched[i].kp
         /\ fetched[i].npub = member_npubs[i]
         /\ member_key_package_events_dict[i].pubkey = member_npubs[i]
    /\ (pc = "cg_fetch") => Len(member_key_package_events) = pos - 1
    /\ (pc \in {"cg_engine", "dispatch"} \/ engine # <<>>) =>
         Len(member_key_package_events) = Len(member_npubs)
    /\ Dispatched =>
         \A i \in DOMAIN member_npubs :
           /\ member_key_package_events_dict[i].id \in DOMAIN event_id_to_npub
           /\ event_id_to_npub[member_key_package_events_dict[i].id] = member_npubs[i]

\* the resolution loop of a group of two stands between its iterations
C20_Witness ==
  /\ op = "create" /\ pc = "cg_fetch" /\ pos = 2
  /\ Len(member_npubs) = 2
  /\ Len(member_key_package_events) = 1
  /\ Len(member_key_package_events_dict) = 1

====
